---- MODULE Spec2Model ----
(***************************************************************************)
(* A model of the Vantage InFusion integration for Home Assistant          *)
(* (custom_components/vantage).                                            *)
(*                                                                         *)
(* Three specifications share one set of variables:                        *)
(*   SpecDevices  - device.py: async_setup_devices, its event handlers and *)
(*                  vantage_device_info, against a changing remote system  *)
(*   SpecEntry    - __init__.py: async_setup_entry, async_setup_events,    *)
(*                  async_unload_entry                                     *)
(*   SpecEntity   - light.py, switch.py, number.py: entity commands and    *)
(*                  state projections                                      *)
(* Each specification leaves the variables of the other two unchanged.     *)
(***************************************************************************)
EXTENDS Integers, Sequences, FiniteSets, Bags, TLC

VARIABLES
    \* ---- device.py ----
    present,      \* ids of the objects the client (vantage) currently holds
    devreg,       \* the device registry: a bag of identifiers <<domain, string>>
    subscribed,   \* controllers on which handle_device_event is subscribed
    dev_pc,       \* position of the async_setup_devices coroutine
    dev_cur,      \* the master whose add_device is suspended in the masters loop
    dev_visited,  \* masters the loop of register_items(vantage.masters) has passed
    pending,      \* per master: handle_device_event tasks suspended in add_device
    quiet,        \* no remote object appeared or disappeared since the run began
    reg_done,     \* the registry as the last completed run left it, while the
                  \* remote object set has not changed since; NoReg otherwise
    deleted,      \* masters whose OBJECT_DELETED was handled, and that have
                  \* not appeared again or had a later handler started since
    \* ---- __init__.py ----
    entry_pc,     \* position of async_setup_entry / async_unload_entry
    result,       \* how the last async_setup_entry ended
    clients,      \* the Vantage instances created so far, each with its state
    hass_data,    \* hass.data[DOMAIN][entry.entry_id]: index in clients, 0: none
    btn_sub,      \* clients whose buttons controller has button_update_callback
    dev_coro,     \* async_setup_devices coroutine objects created, never awaited
    bus,          \* events fired on hass.bus, oldest first
    \* ---- light.py, switch.py, number.py ----
    obj_level,    \* obj.level of the light's remote object
    read,         \* the last value a state property returned to the host
    calls,        \* the remote-library calls the last step issued, in order
    raised,       \* whether the last step surfaced a failure of such a call
    rgb_attrs,    \* the attributes VantageRGBLight.__post_init__ has set
    gmem,         \* the remote variable of the number entity: is_fixed, value
    requested,    \* the value the host passes to async_set_native_value, in
                  \* thousandths
    \* ---- history ----
    last          \* the operation that took the last step

devVars == <<present, devreg, subscribed, dev_pc, dev_cur, dev_visited, pending,
             quiet, reg_done, deleted>>

entryVars == <<entry_pc, result, clients, hass_data, btn_sub, dev_coro, bus>>

entityVars == <<obj_level, read, calls, raised, rgb_attrs, gmem, requested>>

vars == <<devVars, entryVars, entityVars, last>>

----------------------------------------------------------------------------
(* Bounds *)

\* Handler tasks of one master that may be suspended at the same time.
MaxPending == 2

\* Vantage instances created over the life of the config entry.
MaxClients == 3

\* Events kept on the bus.
MaxBus == 2

----------------------------------------------------------------------------
(* Strings: a string is a sequence of one-character strings. *)

DOMAIN_ == "vantage"

DigitChars == <<"0", "1", "2", "3", "4", "5", "6", "7", "8", "9">>

\* str(n) for a non-negative integer
RECURSIVE Str(_)
Str(n) ==
    IF n < 10 THEN <<DigitChars[n + 1]>>
    ELSE Str(n \div 10) \o <<DigitChars[(n % 10) + 1]>>

\* s.split(":")[0]
RECURSIVE SplitFirst(_)
SplitFirst(s) ==
    IF s = <<>> \/ Head(s) = ":" THEN <<>>
    ELSE <<Head(s)>> \o SplitFirst(Tail(s))

DigitVal(c) == CHOOSE d \in 0..9 : DigitChars[d + 1] = c

\* int(s) for a string of decimal digits
RECURSIVE IntOf(_)
IntOf(s) ==
    IF s = <<>> THEN 0
    ELSE 10 * IntOf(SubSeq(s, 1, Len(s) - 1)) + DigitVal(s[Len(s)])

----------------------------------------------------------------------------
(* The remote object model (aiovantage): a fixed universe of objects, each  *)
(* with a controller, an optional parent and a master.                     *)

ObjIds == {1, 2, 3, 4, 5, 10}

Controller(o) ==
    CASE o = 1  -> "masters"
      [] o = 2  -> "modules"
      [] o = 3  -> "back_boxes"
      [] o = 4  -> "stations"
      [] o = 5  -> "stations"
      [] o = 10 -> "port_devices"

\* obj.parent.id of the objects that satisfy ChildObject; 0 for the others
ParentId(o) ==
    CASE o = 4  -> 3
      [] o = 5  -> 2
      [] o = 10 -> 5
      [] OTHER  -> 0

\* obj.master
MasterOf(o) == 1

\* The controllers async_setup_devices registers, in the order it does
RegisteredControllers == <<"masters", "modules", "port_devices", "stations">>

Registered == {RegisteredControllers[i] : i \in 1..Len(RegisteredControllers)}

Members(c, client) == {o \in client : Controller(o) = c}

----------------------------------------------------------------------------
(* device.py: vantage_device_info                                          *)

NoVia == <<>>

\* Mutant of ViaDevice: the back-box exclusion of line 129 is dropped.
ViaDevice_AnyParent(client, o) ==
    IF Controller(o) = "masters" THEN NoVia
    ELSE IF ParentId(o) # 0 /\ ParentId(o) \in client
         THEN <<DOMAIN_, Str(ParentId(o))>>
         ELSE <<DOMAIN_, Str(MasterOf(o))>>

\* The parent-linkage branch, lines 124-135: the via_device key of device_info,
\* NoVia when the key is not set.
ViaDevice(client, o) ==
    IF Controller(o) = "masters" THEN NoVia
    ELSE IF /\ ParentId(o) # 0
            /\ ParentId(o) \in client
            /\ Members("back_boxes", client) \cap {ParentId(o)} = {}
         THEN <<DOMAIN_, Str(ParentId(o))>>
         ELSE <<DOMAIN_, Str(MasterOf(o))>>

\* The identifiers and via_device keys of the DeviceInfo; the name, model,
\* manufacturer, area and serial number keys do not reach the registry's
\* identity and are left out.
vantage_device_info(client, o) ==
    [identifiers |-> {<<DOMAIN_, Str(o)>>}, via_device |-> ViaDevice(client, o)]

----------------------------------------------------------------------------
(* The device registry (homeassistant.helpers.device_registry) as the code  *)
(* uses it.                                                                 *)

\* Mutant of async_get_or_create: a new entry is created every time.
async_create(reg, info) ==
    reg (+) SetToBag({CHOOSE i \in info.identifiers : TRUE})

\* dev_reg.async_get_or_create(config_entry_id=..., **device_info): the entry
\* that carries one of the identifiers is updated in place, otherwise a new
\* entry is created.
async_get_or_create(reg, info) ==
    IF \E i \in info.identifiers : BagIn(i, reg) THEN reg
    ELSE reg (+) SetToBag({CHOOSE i \in info.identifiers : TRUE})

\* Mutant of remove_device: every entry that starts with the object id goes,
\* the suffixed ones too.
remove_device_prefix(reg, o) ==
    LET keep == {i \in BagToSet(reg) : IntOf(SplitFirst(i[2])) # o}
    IN  [i \in keep |-> reg[i]]

\* remove_device(obj): look the device up by (DOMAIN, str(obj.id)) and remove
\* that one entry when there is one.
remove_device(reg, o) ==
    IF BagIn(<<DOMAIN_, Str(o)>>, reg)
    THEN reg (-) SetToBag({<<DOMAIN_, Str(o)>>})
    ELSE reg

\* add_device(obj) of a controller without extra_info_fn: no suspension
add_device(reg, client, o) == async_get_or_create(reg, vantage_device_info(client, o))

\* int(device_id.split(":")[0]) of a registry entry, lines 80-81
VantageIdOf(ident) == IntOf(SplitFirst(ident[2]))

\* The cleanup loop, lines 78-83: every entry whose object id is not in the
\* client is removed.
Cleanup(reg, client) ==
    LET keep == {i \in BagToSet(reg) : VantageIdOf(i) \in client}
    IN  [i \in keep |-> reg[i]]

\* "for obj in controller: await add_device(obj)" of a controller without
\* extra_info_fn, over the members in the order of their ids
RECURSIVE AddAll(_, _, _)
AddAll(reg, client, todo) ==
    IF todo = {} THEN reg
    ELSE LET o == CHOOSE x \in todo : \A y \in todo : x <= y
         IN  AddAll(add_device(reg, client, o), client, todo \ {o})

\* Mutant of RegisterParents: the port devices are not registered.
RegisterParents_NoPortDevices(reg, client) ==
    AddAll(AddAll(reg, client, Members("modules", client)),
           client, Members("stations", client))

\* register_items(vantage.modules), (vantage.port_devices), (vantage.stations)
\* in turn, lines 73-75
RegisterParents(reg, client) ==
    AddAll(AddAll(AddAll(reg, client, Members("modules", client)),
                  client, Members("port_devices", client)),
           client, Members("stations", client))

\* Lines 73-83, which run without suspension once the masters are registered
FinishSetup(reg, client) == Cleanup(RegisterParents(reg, client), client)

----------------------------------------------------------------------------
(* device.py: async_setup_devices and the handlers it subscribes           *)

NoReg == [valid |-> FALSE, reg |-> EmptyBag]

\* `last`: the operation, its object (0: none), whether the registry held the
\* object's device (for setup_done: whether the cleanup removed a device), the
\* via_device of the device_info it built, and, for setup_done, whether the
\* run followed a completed run with the remote object set unchanged.
Op(op, o, had, via) ==
    [op |-> op, obj |-> o, had |-> had, via |-> via, again |-> FALSE]

MinOf(S) == CHOOSE x \in S : \A y \in S : x <= y

HasDevice(reg, o) == BagIn(<<DOMAIN_, Str(o)>>, reg)

\* Identifiers the registry may hold from earlier sessions: of an object of a
\* controller that is not registered here, and one with a suffix after the
\* object id.
EarlierIdents ==
    {<<DOMAIN_, Str(3)>>, <<DOMAIN_, Str(4) \o <<":", "a">> >>}

DevicesIdle ==
    /\ present = ObjIds
    /\ devreg = EmptyBag
    /\ subscribed = {}
    /\ dev_pc = "idle"
    /\ dev_cur = 0
    /\ dev_visited = {}
    /\ pending = [o \in Members("masters", ObjIds) |-> 0]
    /\ quiet = TRUE
    /\ reg_done = NoReg
    /\ deleted = {}

EntryIdle ==
    /\ entry_pc = "not_loaded"
    /\ result = "none"
    /\ clients = <<>>
    /\ hass_data = 0
    /\ btn_sub = {}
    /\ dev_coro = 0
    /\ bus = <<>>

NoRead == [kind |-> "none", value |-> 0]

NoAttrs ==
    [supported_color_modes |-> {}, color_mode |-> "none", transition |-> FALSE,
     warnings |-> 0, raised |-> FALSE]

EntityIdle ==
    /\ obj_level = 0
    /\ read = NoRead
    /\ calls = <<>>
    /\ raised = FALSE
    /\ rgb_attrs = NoAttrs
    /\ gmem = [is_fixed |-> TRUE, value |-> 0]
    /\ requested = 0

InitDevices ==
    /\ EntryIdle
    /\ EntityIdle
    /\ last = Op("init", 0, FALSE, NoVia)
    /\ present = ObjIds
    /\ devreg \in {SetToBag(S) : S \in SUBSET EarlierIdents}
    /\ subscribed = {}
    /\ dev_pc = "idle"
    /\ dev_cur = 0
    /\ dev_visited = {}
    /\ pending = [o \in Members("masters", ObjIds) |-> 0]
    /\ quiet = TRUE
    /\ reg_done = NoReg
    /\ deleted = {}

\* Lines 64 and 73-83: the masters are registered; subscribe to them, register
\* the three other controllers and subscribe to each, then clean up.
CompleteSetup(reg) ==
    /\ devreg' = FinishSetup(reg, present)
    /\ subscribed' = Registered
    /\ dev_pc' = "done"
    /\ dev_cur' = 0
    /\ dev_visited' = {}
    /\ reg_done' = [valid |-> TRUE, reg |-> devreg']
    /\ last' = [Op("setup_done", 0, devreg' # RegisterParents(reg, present), NoVia)
                    EXCEPT !.again = reg_done.valid]

\* async_setup_devices is awaited: it runs up to the first suspension, the
\* await of get_application_version for the first master (line 68), or to its
\* end when the client holds no master.  An entry is set up again only after
\* its unload callbacks have run.
SetupDevicesStart ==
    /\ UNCHANGED <<entryVars, entityVars>>
    /\ dev_pc = "idle"
    /\ quiet' = TRUE
    /\ UNCHANGED <<present, pending, deleted>>
    /\ IF Members("masters", present) = {}
       THEN CompleteSetup(devreg)
       ELSE /\ dev_pc' = "master"
            /\ dev_cur' = MinOf(Members("masters", present))
            /\ dev_visited' = {}
            /\ last' = Op("setup_start", 0, FALSE, NoVia)
            /\ UNCHANGED <<devreg, subscribed, reg_done>>

\* get_application_version returns for the master of the loop: lines 39-43 for
\* it, then the next master's add_device up to its suspension, or the rest of
\* async_setup_devices.  A master's device_info has no key that depends on the
\* client, so computing it here equals computing it before the await.
MasterFetched ==
    /\ UNCHANGED <<entryVars, entityVars>>
    /\ dev_pc = "master"
    /\ UNCHANGED <<present, pending, quiet, deleted>>
    /\ LET reg1 == async_get_or_create(devreg, vantage_device_info(present, dev_cur))
           rest == Members("masters", present) \ (dev_visited \cup {dev_cur})
       IN  IF rest = {}
           THEN CompleteSetup(reg1)
           ELSE /\ devreg' = reg1
                /\ dev_cur' = MinOf(rest)
                /\ dev_visited' = dev_visited \cup {dev_cur}
                /\ last' = Op("master_added", dev_cur, HasDevice(devreg, dev_cur),
                              vantage_device_info(present, dev_cur).via_device)
                /\ UNCHANGED <<subscribed, dev_pc, reg_done>>

\* get_application_version raises: the exception leaves async_setup_devices,
\* which may be awaited again.
MasterFetchFails ==
    /\ UNCHANGED <<entryVars, entityVars>>
    /\ dev_pc = "master"
    /\ dev_pc' = "idle"
    /\ dev_cur' = 0
    /\ dev_visited' = {}
    /\ last' = Op("setup_failed", 0, FALSE, NoVia)
    /\ UNCHANGED <<present, devreg, subscribed, pending, quiet, reg_done, deleted>>

\* The callbacks given to entry.async_on_unload (line 64) run: every
\* handle_device_event subscription ends.
UnloadDevices ==
    /\ UNCHANGED <<entryVars, entityVars>>
    /\ dev_pc = "done"
    /\ dev_pc' = "idle"
    /\ subscribed' = {}
    /\ last' = Op("unloaded", 0, FALSE, NoVia)
    /\ UNCHANGED <<present, devreg, dev_cur, dev_visited, pending, quiet, reg_done,
                   deleted>>

\* handle_device_event(event_type, obj, _data), lines 51-57, called with the
\* client holding `client`.  For a master add_device suspends at line 39 and
\* the task joins `pending`.
handle_device_event(ev, o, client) ==
    IF ev = "OBJECT_DELETED"
    THEN /\ devreg' = remove_device(devreg, o)
         /\ last' = Op("deleted", o, HasDevice(devreg, o), NoVia)
         /\ deleted' = deleted \cup ({o} \cap Members("masters", ObjIds))
         /\ UNCHANGED pending
    ELSE IF Controller(o) = "masters"
    THEN /\ pending[o] < MaxPending
         /\ pending' = [pending EXCEPT ![o] = @ + 1]
         /\ last' = Op("suspended", o, HasDevice(devreg, o), NoVia)
         /\ deleted' = deleted \ {o}
         /\ UNCHANGED devreg
    ELSE /\ devreg' = add_device(devreg, client, o)
         /\ last' = Op("added", o, HasDevice(devreg, o),
                       vantage_device_info(client, o).via_device)
         /\ deleted' = deleted \ {o}
         /\ UNCHANGED pending

\* The controller delivers an event to its subscribers, if it has any.
Deliver(ev, o, client) ==
    IF Controller(o) \in subscribed
    THEN handle_device_event(ev, o, client)
    ELSE /\ last' = Op("silent", 0, FALSE, NoVia)
         /\ deleted' = deleted \ {o}
         /\ UNCHANGED <<devreg, pending>>

\* An object appears in the remote system.
RemoteAdd(o) ==
    /\ UNCHANGED <<entryVars, entityVars>>
    /\ o \notin present
    /\ present' = present \cup {o}
    /\ quiet' = FALSE
    /\ reg_done' = NoReg
    /\ Deliver("OBJECT_ADDED", o, present')
    /\ UNCHANGED <<subscribed, dev_pc, dev_cur, dev_visited>>

\* An attribute of an object changes.
RemoteUpdate(o) ==
    /\ UNCHANGED <<entryVars, entityVars>>
    /\ o \in present
    /\ Controller(o) \in subscribed
    /\ handle_device_event("OBJECT_UPDATED", o, present)
    /\ UNCHANGED <<present, subscribed, dev_pc, dev_cur, dev_visited, quiet, reg_done>>

\* An object disappears from the remote system.
RemoteDelete(o) ==
    /\ UNCHANGED <<entryVars, entityVars>>
    /\ o \in present
    /\ present' = present \ {o}
    /\ quiet' = FALSE
    /\ reg_done' = NoReg
    /\ Deliver("OBJECT_DELETED", o, present')
    /\ UNCHANGED <<subscribed, dev_pc, dev_cur, dev_visited>>

\* The delete notification of an object that is gone is delivered again.
RepeatDelete(o) ==
    /\ UNCHANGED <<entryVars, entityVars>>
    /\ o \notin present
    /\ Controller(o) \in subscribed
    /\ handle_device_event("OBJECT_DELETED", o, present)
    /\ UNCHANGED <<present, subscribed, dev_pc, dev_cur, dev_visited, quiet, reg_done>>

\* get_application_version returns in a suspended handler task of master o:
\* lines 39-43.
HandlerResume(o) ==
    /\ UNCHANGED <<entryVars, entityVars>>
    /\ pending[o] > 0
    /\ pending' = [pending EXCEPT ![o] = @ - 1]
    /\ devreg' = async_get_or_create(devreg, vantage_device_info(present, o))
    /\ last' = Op("resumed", o, HasDevice(devreg, o),
                  vantage_device_info(present, o).via_device)
    /\ UNCHANGED <<present, subscribed, dev_pc, dev_cur, dev_visited, quiet, reg_done,
                   deleted>>

\* get_application_version raises in a suspended handler task: the task ends.
HandlerFails(o) ==
    /\ UNCHANGED <<entryVars, entityVars>>
    /\ pending[o] > 0
    /\ pending' = [pending EXCEPT ![o] = @ - 1]
    /\ last' = Op("handler_failed", o, FALSE, NoVia)
    /\ UNCHANGED <<present, devreg, subscribed, dev_pc, dev_cur, dev_visited, quiet,
                   reg_done, deleted>>

NextDevices ==
    \/ SetupDevicesStart
    \/ MasterFetched
    \/ MasterFetchFails
    \/ UnloadDevices
    \/ \E o \in ObjIds : RemoteAdd(o)
    \/ \E o \in ObjIds : RemoteUpdate(o)
    \/ \E o \in ObjIds : RemoteDelete(o)
    \/ \E o \in ObjIds : RepeatDelete(o)
    \/ \E o \in Members("masters", ObjIds) : HandlerResume(o)
    \/ \E o \in Members("masters", ObjIds) : HandlerFails(o)

SpecDevices == InitDevices /\ [][NextDevices]_vars

----------------------------------------------------------------------------
(* Claims about device.py, checked under SpecDevices                       *)

\* C1: when a run of async_setup_devices has completed and no remote object
\* appeared or disappeared during it, every object the client holds in the
\* masters, modules, port devices and stations controllers has exactly one
\* device whose identifier is (DOMAIN, str(object id)).
C1_ExactlyOneDevice ==
    (last.op = "setup_done" /\ quiet) =>
        \A o \in present :
            Controller(o) \in Registered => CopiesIn(<<DOMAIN_, Str(o)>>, devreg) = 1

\* A run completed against a set that holds an object of each registered
\* controller.
C1_Witness ==
    /\ last.op = "setup_done"
    /\ quiet
    /\ \A c \in Registered : Members(c, present) # {}

AllIdents(r1, r2) == BagToSet(r1) \cup BagToSet(r2)

\* C2: a step that handles OBJECT_DELETED for an object removes the device
\* with identifier (DOMAIN, str(object id)) when there is one and changes no
\* other device, so that a repeated notification removes nothing; the step
\* that completes async_setup_devices leaves no device whose encoded object id
\* is absent from the client and keeps every device whose object id is present.
C2_RemovedExactlyOnce ==
    [][ /\ last'.op = "deleted" =>
            /\ ~HasDevice(devreg', last'.obj)
            /\ \A i \in AllIdents(devreg, devreg') :
                   i # <<DOMAIN_, Str(last'.obj)>> =>
                       CopiesIn(i, devreg') = CopiesIn(i, devreg)
            /\ BagCardinality(devreg') =
                   BagCardinality(devreg) - (IF last'.had THEN 1 ELSE 0)
        /\ last'.op = "setup_done" =>
            \A i \in AllIdents(devreg, devreg') :
                IF IntOf(SplitFirst(i[2])) \in present'
                THEN CopiesIn(i, devreg') >= CopiesIn(i, devreg)
                ELSE CopiesIn(i, devreg') = 0
      ]_vars

\* A delete notification found the object's device and removed it, while the
\* registry still holds a device with a suffixed identifier.
C2_Witness ==
    /\ last.op = "deleted"
    /\ last.had
    /\ ~HasDevice(devreg, last.obj)
    /\ devreg # EmptyBag

\* C3: no identifier is ever on two devices; a run of async_setup_devices that
\* completes after a completed run, with no remote object added or removed in
\* between, leaves the registry as the earlier run left it; and an add/update
\* notification for an object that has a device leaves the registry unchanged.
C3_Idempotent ==
    /\ [](\A i \in BagToSet(devreg) : CopiesIn(i, devreg) = 1)
    /\ [][ /\ (last'.op = "setup_done" /\ reg_done.valid) => devreg' = reg_done.reg
           /\ (last'.op \in {"added", "resumed", "master_added"} /\ last'.had) =>
                  devreg' = devreg
         ]_vars

\* A second run completed against the unchanged object set, with devices in
\* the registry.
C3_Witness ==
    /\ last.op = "setup_done"
    /\ last.again
    /\ \A c \in Registered : Members(c, present) # {}

\* C10: the via_device of the device_info built for an object is absent for a
\* master; (DOMAIN, str(parent id)) for another object whose parent is in the
\* client and is not a back box; (DOMAIN, str(master)) otherwise.
C10_ViaDevice ==
    last.op \in {"added", "resumed", "master_added"} =>
        LET o == last.obj
            p == ParentId(o)
        IN  last.via =
                IF Controller(o) = "masters" THEN NoVia
                ELSE IF p # 0 /\ p \in present /\ Controller(p) # "back_boxes"
                THEN <<DOMAIN_, Str(p)>>
                ELSE <<DOMAIN_, Str(MasterOf(o))>>

\* The station in a back box that the client holds is linked to its master.
C10_Witness ==
    /\ last.op = "added"
    /\ last.obj = 4
    /\ 3 \in present
    /\ last.via = <<DOMAIN_, <<"1">> >>

\* C13: once the OBJECT_DELETED notification of an object has been handled,
\* the object has not appeared again, and none of its handlers is still
\* suspended, the registry holds no device with the object's identifier.
\* Only a master's handler suspends, so for the other objects this is a
\* property of the step that handles the notification.
C13_DeletedAfterHandlers ==
    /\ [](\A o \in deleted :
              (o \notin present /\ pending[o] = 0) => ~HasDevice(devreg, o))
    /\ [][ (last'.op = "deleted" /\ Controller(last'.obj) # "masters") =>
               ~HasDevice(devreg', last'.obj) ]_vars

----------------------------------------------------------------------------
(* __init__.py: async_setup_entry, async_setup_events, async_unload_entry  *)

\* aiovantage.errors raised by the awaited steps, and any other exception
ErrorKinds ==
    {"LoginRequiredError", "LoginFailedError", "ClientConnectionError", "OtherError"}

\* Mutant of Remap: LoginFailedError is missing from the first except clause.
Remap_NoLoginFailed(err) ==
    IF err = "LoginRequiredError" THEN "ConfigEntryAuthFailed"
    ELSE IF err = "ClientConnectionError" THEN "ConfigEntryNotReady"
    ELSE err

\* The except clauses of async_setup_entry, lines 71-79: what leaves the
\* function when `err` is raised inside the try block.
Remap(err) ==
    IF err \in {"LoginRequiredError", "LoginFailedError"} THEN "ConfigEntryAuthFailed"
    ELSE IF err = "ClientConnectionError" THEN "ConfigEntryNotReady"
    ELSE err

\* Button objects of the client and the id of the object each has as parent
Buttons == {20, 21}

ButtonParent(b) == IF b = 20 THEN 4 ELSE 3

EntryOp(op, err) ==
    [op |-> op, err |-> err, obj |-> 0, attrs |-> {}, pressed |-> FALSE]

\* async_setup_entry up to its first suspension, lines 45-57: a client is
\* created and stored under the entry id, and initialize() is awaited.
SetupEntryStart ==
    /\ entry_pc = "not_loaded"
    /\ Len(clients) < MaxClients
    /\ clients' = Append(clients, "new")
    /\ hass_data' = Len(clients) + 1
    /\ entry_pc' = "initializing"
    /\ result' = "pending"
    /\ last' = EntryOp("setup_start", "none")
    /\ UNCHANGED <<btn_sub, dev_coro, bus, devVars, entityVars>>

\* An exception leaves async_setup_entry, remapped by lines 71-79.  The host
\* then runs the callbacks given to entry.async_on_unload; the client stays in
\* hass.data.
SetupFails(err) ==
    /\ result' = Remap(err)
    /\ entry_pc' = "not_loaded"
    /\ btn_sub' = {}
    /\ last' = EntryOp("setup_returned", err)

\* initialize() returns or raises.  On return, line 60 calls
\* async_setup_devices without awaiting it, which only creates a coroutine
\* object; async_setup_events (lines 84-113) subscribes button_update_callback
\* to the buttons of the client in hass.data; then
\* async_forward_entry_setups is awaited (line 66).
InitializeReturns(err) ==
    /\ entry_pc = "initializing"
    /\ IF err = "none"
       THEN /\ clients' = [clients EXCEPT ![hass_data] = "ready"]
            /\ dev_coro' = dev_coro + 1
            /\ btn_sub' = btn_sub \cup {hass_data}
            /\ entry_pc' = "forwarding"
            /\ last' = EntryOp("initialized", "none")
            /\ UNCHANGED result
       ELSE /\ SetupFails(err)
            /\ UNCHANGED <<clients, dev_coro>>
    /\ UNCHANGED <<hass_data, bus, devVars, entityVars>>

\* async_forward_entry_setups returns or raises; on return line 69 runs and
\* async_setup_entry returns True (line 81).
ForwardReturns(err) ==
    /\ entry_pc = "forwarding"
    /\ IF err = "none"
       THEN /\ entry_pc' = "loaded"
            /\ result' = "True"
            /\ last' = EntryOp("setup_returned", "none")
            /\ UNCHANGED btn_sub
       ELSE SetupFails(err)
    /\ UNCHANGED <<clients, hass_data, dev_coro, bus, devVars, entityVars>>

\* async_unload_entry up to its suspension, lines 118-122: the client is
\* popped from hass.data and closed, and async_unload_platforms is awaited.
UnloadEntryStart ==
    /\ entry_pc = "loaded"
    /\ hass_data' = 0
    /\ clients' = IF hass_data # 0 THEN [clients EXCEPT ![hass_data] = "closed"]
                  ELSE clients
    /\ entry_pc' = "unloading"
    /\ last' = EntryOp("unload_start", "none")
    /\ UNCHANGED <<result, btn_sub, dev_coro, bus, devVars, entityVars>>

\* async_unload_platforms returns ok, which async_unload_entry returns.  When
\* it is True the host runs the entry's on_unload callbacks and the entry can
\* be set up again.
UnloadPlatformsReturns(ok) ==
    /\ entry_pc = "unloading"
    /\ entry_pc' = IF ok THEN "not_loaded" ELSE "failed_unload"
    /\ btn_sub' = IF ok THEN {} ELSE btn_sub
    /\ last' = EntryOp(IF ok THEN "unloaded" ELSE "unload_failed", "none")
    /\ UNCHANGED <<result, clients, hass_data, dev_coro, bus, devVars, entityVars>>

\* The payload of lines 94-102 and the event name of lines 105 and 107
ButtonEvent(client, b, pressed) ==
    [event_type    |-> <<DOMAIN_, IF pressed THEN "_button_pressed"
                                             ELSE "_button_released">>,
     button_id     |-> b,
     button_position |-> "TODO",
     station_id    |-> IF ButtonParent(b) \in Members("stations", client)
                       THEN ButtonParent(b) ELSE 0]

\* Mutant of button_update_callback: the changed attributes are not looked at.
button_update_callback_unfiltered(client, b, attrs_changed, pressed) ==
    <<ButtonEvent(client, b, pressed)>>

\* button_update_callback(_event, obj, data), lines 89-107: the events it
\* fires, in order
button_update_callback(client, b, attrs_changed, pressed) ==
    IF "pressed" \notin attrs_changed THEN <<>>
    ELSE <<ButtonEvent(client, b, pressed)>>

\* Client c delivers OBJECT_UPDATED for button b to the subscribed callback.
ButtonUpdated(c, b, attrs_changed, pressed) ==
    /\ c \in btn_sub
    /\ clients[c] = "ready"
    /\ Len(bus) + Len(button_update_callback(present, b, attrs_changed, pressed))
           <= MaxBus
    /\ bus' = bus \o button_update_callback(present, b, attrs_changed, pressed)
    /\ last' = [EntryOp("button_updated", "none") EXCEPT
                   !.obj = b, !.attrs = attrs_changed, !.pressed = pressed]
    /\ UNCHANGED <<entry_pc, result, clients, hass_data, btn_sub, dev_coro, devVars,
                   entityVars>>

InitEntry ==
    /\ DevicesIdle
    /\ EntityIdle
    /\ EntryIdle
    /\ last = EntryOp("init", "none")

NextEntry ==
    \/ SetupEntryStart
    \/ \E err \in ErrorKinds \cup {"none"} : InitializeReturns(err)
    \/ \E err \in ErrorKinds \cup {"none"} : ForwardReturns(err)
    \/ UnloadEntryStart
    \/ \E ok \in BOOLEAN : UnloadPlatformsReturns(ok)
    \/ \E c \in 1..MaxClients, b \in Buttons,
          attrs_changed \in SUBSET {"pressed", "name"}, pressed \in BOOLEAN :
              ButtonUpdated(c, b, attrs_changed, pressed)

SpecEntry == InitEntry /\ [][NextEntry]_vars

----------------------------------------------------------------------------
(* Claims about __init__.py, checked under SpecEntry                       *)

\* C4: a step in which the subscribed button callback handles OBJECT_UPDATED
\* fires exactly one bus event when "pressed" is among the changed attributes
\* - named <DOMAIN>_button_pressed when the button's pressed attribute is true
\* and <DOMAIN>_button_released when it is false, with the button's id as
\* button_id - and fires none otherwise.
C4_ButtonEvents ==
    [][ last'.op = "button_updated" =>
            IF "pressed" \in last'.attrs
            THEN /\ Len(bus') = Len(bus) + 1
                 /\ SubSeq(bus', 1, Len(bus)) = bus
                 /\ bus'[Len(bus')].event_type =
                        IF last'.pressed THEN <<"vantage", "_button_pressed">>
                        ELSE <<"vantage", "_button_released">>
                 /\ bus'[Len(bus')].button_id = last'.obj
            ELSE bus' = bus
      ]_vars

\* A release and then a press have been reported and republished.
C4_Witness ==
    /\ last.op = "button_updated"
    /\ last.pressed
    /\ "pressed" \in last.attrs
    /\ Len(bus) = 2
    /\ bus[1].event_type = <<"vantage", "_button_released">>
    /\ bus[2].event_type = <<"vantage", "_button_pressed">>

\* C5: when async_setup_entry has ended, it raised ConfigEntryAuthFailed if a
\* step raised LoginRequiredError or LoginFailedError, ConfigEntryNotReady if a
\* step raised ClientConnectionError, and it returned True exactly when no
\* step raised.
C5_SetupErrors ==
    last.op = "setup_returned" =>
        /\ last.err \in {"LoginRequiredError", "LoginFailedError"} =>
               result = "ConfigEntryAuthFailed"
        /\ last.err = "ClientConnectionError" => result = "ConfigEntryNotReady"
        /\ (last.err = "none") <=> (result = "True")

\* A setup failed on a connection error, after an earlier one had succeeded.
C5_Witness ==
    /\ last.op = "setup_returned"
    /\ last.err = "ClientConnectionError"
    /\ result = "ConfigEntryNotReady"
    /\ Len(clients) > 1

\* C11: while async_setup_entry awaits the forwarding of the entity platforms,
\* and once it has returned True, the device registry has been reconciled:
\* async_setup_devices has run to its end, and every object the client holds
\* in the masters, modules, port devices and stations controllers has its
\* device.
C11_SetupOrder ==
    entry_pc \in {"forwarding", "loaded"} =>
        /\ dev_pc = "done"
        /\ \A o \in present :
               Controller(o) \in Registered => HasDevice(devreg, o)

\* C14: every client instance that async_setup_entry has created is the one
\* stored under the entry id in hass.data or has been closed.
C14_ClientsStoredOrClosed ==
    \A i \in 1..Len(clients) : i = hass_data \/ clients[i] = "closed"

----------------------------------------------------------------------------
(* light.py, switch.py, number.py: entity commands and state properties    *)

\* A keyword argument that is not supplied is -1 (numbers) or <<>> (tuples).
Absent == -1

\* kwargs.get(key, default)
Get(x, default) == IF x = Absent THEN default ELSE x

\* A float that the code computes by one division is kept as the exact
\* fraction <<numerator, denominator>>.
Rat(n, d) == <<n, d>>

\* Python's round() of a non-negative fraction n/d: to nearest, ties to even
RoundHalfEven(n, d) ==
    LET q == n \div d
        r == n % d
    IN  IF 2 * r > d THEN q + 1
        ELSE IF 2 * r < d THEN q
        ELSE IF q % 2 = 0 THEN q ELSE q + 1

Min(a, b) == IF a < b THEN a ELSE b

Max(a, b) == IF a > b THEN a ELSE b

\* light.py line 34
LEVEL_RANGE == <<1, 100>>

\* The brightness range of the host platform, (1, 255)
BRIGHTNESS_RANGE == <<1, 255>>

\* homeassistant.util.scaling.states_in_range
states_in_range(range) == range[2] - range[1] + 1

\* homeassistant.util.scaling.scale_to_ranged_value for an integer value:
\* (value - source_offset) * states(target) / states(source) + target_offset
scale_to_ranged_value(source, target, value) ==
    Rat((value - (source[1] - 1)) * states_in_range(target)
            + (target[1] - 1) * states_in_range(source),
        states_in_range(source))

\* homeassistant.util.color.brightness_to_value, as lines 92, 204, 220 and 268
\* call it
brightness_to_value(range, brightness) ==
    scale_to_ranged_value(BRIGHTNESS_RANGE, range, brightness)

\* homeassistant.util.color.value_to_brightness, as lines 87, 152 and 263 call
\* it: the scaled value rounded and clamped to 1..255
value_to_brightness(range, value) ==
    LET x == scale_to_ranged_value(range, BRIGHTNESS_RANGE, value)
    IN  Min(255, Max(1, RoundHalfEven(x[1], x[2])))

\* Mutant of brightness: the level is taken to be on the host's scale already.
brightness_unscaled(level) == value_to_brightness(BRIGHTNESS_RANGE, level)

\* The brightness property of the three light classes for a level that is not
\* None, lines 81-87
brightness(level) == value_to_brightness(LEVEL_RANGE, level)

\* scale_color_brightness(color, brightness), lines 279-284
scale_color_brightness(color, b) ==
    IF b = Absent THEN color
    ELSE [i \in 1..Len(color) |-> RoundHalfEven(color[i] * b, 255)]

Call(method, args) == [method |-> method, args |-> args]

\* "brightness := kwargs.get(ATTR_BRIGHTNESS) is not None", lines 184 and 195:
\* the name is bound to the result of the comparison, a bool, which the
\* arithmetic of scale_color_brightness takes as 1
WalrusBrightness(kw) == IF kw.brightness # Absent THEN 1 ELSE 0

\* VantageLight.async_turn_on and VantageLightGroup.async_turn_on, lines 89-94
\* and 265-270: the calls handed to async_request_call, in order
Light_async_turn_on(kw) ==
    <<Call("turn_on", <<Get(kw.transition, 0),
                        brightness_to_value(LEVEL_RANGE, Get(kw.brightness, 255))>>)>>

\* async_turn_off of the three light classes, lines 96-100, 224-228, 272-276
Light_async_turn_off(kw) == <<Call("turn_off", <<Get(kw.transition, 0)>>)>>

\* Mutant of RGBLight_async_turn_on: the last branch is taken after the HS
\* branch too, and the colour branches do not end the method.
RGBLight_async_turn_on_fallthrough(kw) ==
    (IF kw.hs_color # <<>>
     THEN <<Call("dissolve_hsl",
                 <<kw.hs_color[1], kw.hs_color[2],
                   brightness_to_value(LEVEL_RANGE, Get(kw.brightness, 255)),
                   Get(kw.transition, 0)>>)>>
     ELSE <<>>)
    \o <<Call("turn_on", <<Get(kw.transition, 0),
                          brightness_to_value(LEVEL_RANGE, Get(kw.brightness, 255))>>)>>

\* VantageRGBLight.async_turn_on, lines 177-222
RGBLight_async_turn_on(kw) ==
    IF kw.rgbw_color # <<>>
    THEN <<Call("set_rgbw",
                IF WalrusBrightness(kw) # 0
                THEN scale_color_brightness(kw.rgbw_color, WalrusBrightness(kw))
                ELSE kw.rgbw_color)>>
    ELSE IF kw.rgb_color # <<>>
    THEN <<Call("dissolve_rgb",
                (IF WalrusBrightness(kw) # 0
                 THEN scale_color_brightness(kw.rgb_color, WalrusBrightness(kw))
                 ELSE kw.rgb_color) \o <<Get(kw.transition, 0)>>)>>
    ELSE IF kw.hs_color # <<>>
    THEN <<Call("dissolve_hsl",
                <<kw.hs_color[1], kw.hs_color[2],
                  brightness_to_value(LEVEL_RANGE, Get(kw.brightness, 255)),
                  Get(kw.transition, 0)>>)>>
    ELSE (IF kw.color_temp_kelvin # Absent
          THEN <<Call("set_color_temp", <<kw.color_temp_kelvin>>)>>
          ELSE <<>>)
         \o <<Call("turn_on",
                   <<Get(kw.transition, 0),
                     brightness_to_value(LEVEL_RANGE, Get(kw.brightness, 255))>>)>>

\* switch.py lines 48-54 and 68-74
LoadSwitch_async_turn_on == <<Call("turn_on", <<>>)>>

LoadSwitch_async_turn_off == <<Call("turn_off", <<>>)>>

VariableSwitch_async_turn_on == <<Call("set_value", <<TRUE>>)>>

VariableSwitch_async_turn_off == <<Call("set_value", <<FALSE>>)>>

LightClasses == {"VantageLight", "VantageRGBLight", "VantageLightGroup"}

SwitchClasses == {"VantageLoadSwitch", "VantageVariableSwitch"}

\* The calls a turn_on / turn_off command of an entity makes
CommandCalls(entity, method, kw) ==
    CASE entity = "VantageRGBLight" /\ method = "async_turn_on" ->
             RGBLight_async_turn_on(kw)
      [] entity \in {"VantageLight", "VantageLightGroup"} /\ method = "async_turn_on" ->
             Light_async_turn_on(kw)
      [] entity \in LightClasses /\ method = "async_turn_off" ->
             Light_async_turn_off(kw)
      [] entity = "VantageLoadSwitch" /\ method = "async_turn_on" ->
             LoadSwitch_async_turn_on
      [] entity = "VantageLoadSwitch" /\ method = "async_turn_off" ->
             LoadSwitch_async_turn_off
      [] entity = "VantageVariableSwitch" /\ method = "async_turn_on" ->
             VariableSwitch_async_turn_on
      [] entity = "VantageVariableSwitch" /\ method = "async_turn_off" ->
             VariableSwitch_async_turn_off

\* "await self.async_request_call(...)" for each call in turn: a call is
\* issued and awaited, and its failure leaves the command.  fail_at is the
\* position of the call that fails, 0 when none does.
async_request_call(planned, fail_at) ==
    IF fail_at \in 1..Len(planned) THEN SubSeq(planned, 1, fail_at) ELSE planned

NoKwargs ==
    [brightness |-> Absent, transition |-> Absent, rgb_color |-> <<>>,
     rgbw_color |-> <<>>, hs_color |-> <<>>, color_temp_kelvin |-> Absent]

EntityOp(op, entity, method, kw, fail_at) ==
    [op |-> op, entity |-> entity, method |-> method, kw |-> kw,
     fail_at |-> fail_at, value |-> 0, color_type |-> "none"]

\* A turn_on / turn_off command of an entity runs to its end.
Command(entity, method, kw, fail_at) ==
    /\ calls' = async_request_call(CommandCalls(entity, method, kw), fail_at)
    /\ raised' = (fail_at \in 1..Len(CommandCalls(entity, method, kw)))
    /\ last' = EntityOp("command", entity, method, kw, fail_at)
    /\ UNCHANGED <<obj_level, read, rgb_attrs, gmem, requested, devVars, entryVars>>

\* The host reads the brightness property of a light whose level is not None.
ReadBrightness ==
    /\ read' = [kind |-> "brightness", value |-> brightness(obj_level)]
    /\ last' = EntityOp("read_brightness", "VantageLight", "brightness", NoKwargs, 0)
    /\ calls' = <<>>
    /\ raised' = FALSE
    /\ UNCHANGED <<obj_level, rgb_attrs, gmem, requested, devVars, entryVars>>

\* The remote object reports a new level.
RemoteLevel(level) ==
    /\ obj_level' = level
    /\ read' = NoRead
    /\ last' = EntityOp("remote_level", "VantageLight", "level", NoKwargs, 0)
    /\ calls' = <<>>
    /\ raised' = FALSE
    /\ UNCHANGED <<rgb_attrs, gmem, requested, devVars, entryVars>>

\* Colour types of aiovantage's RGB loads, and None
ColorTypes == {"HSL", "RGB", "RGBW", "CCT", "HSIC", "COLOR_CHANNEL", "None"}

\* Mutant of PostInitRGB: RGBW is not matched and falls to the default case.
PostInitRGB_NoRGBW(color_type) ==
    CASE color_type = "HSL" ->
             [supported_color_modes |-> {"HS"}, color_mode |-> "HS",
              transition |-> TRUE, warnings |-> 0, raised |-> FALSE]
      [] color_type = "RGB" ->
             [supported_color_modes |-> {"RGB"}, color_mode |-> "RGB",
              transition |-> TRUE, warnings |-> 0, raised |-> FALSE]
      [] color_type = "CCT" ->
             [supported_color_modes |-> {"COLOR_TEMP"}, color_mode |-> "COLOR_TEMP",
              transition |-> TRUE, warnings |-> 0, raised |-> FALSE]
      [] OTHER ->
             [supported_color_modes |-> {"BRIGHTNESS"}, color_mode |-> "BRIGHTNESS",
              transition |-> TRUE, warnings |-> 1, raised |-> FALSE]

\* VantageRGBLight.__post_init__, lines 106-139: the attributes it sets and
\* the warnings it logs
PostInitRGB(color_type) ==
    CASE color_type = "HSL" ->
             [supported_color_modes |-> {"HS"}, color_mode |-> "HS",
              transition |-> TRUE, warnings |-> 0, raised |-> FALSE]
      [] color_type = "RGB" ->
             [supported_color_modes |-> {"RGB"}, color_mode |-> "RGB",
              transition |-> TRUE, warnings |-> 0, raised |-> FALSE]
      [] color_type = "RGBW" ->
             [supported_color_modes |-> {"RGBW"}, color_mode |-> "RGBW",
              transition |-> FALSE, warnings |-> 0, raised |-> FALSE]
      [] color_type = "CCT" ->
             [supported_color_modes |-> {"COLOR_TEMP"}, color_mode |-> "COLOR_TEMP",
              transition |-> TRUE, warnings |-> 0, raised |-> FALSE]
      [] OTHER ->
             [supported_color_modes |-> {"BRIGHTNESS"}, color_mode |-> "BRIGHTNESS",
              transition |-> TRUE, warnings |-> 1, raised |-> FALSE]

\* A VantageRGBLight is created for an object of the given colour type.
InitRGBLight(color_type) ==
    /\ rgb_attrs = NoAttrs
    /\ rgb_attrs' = PostInitRGB(color_type)
    /\ last' = [EntityOp("post_init", "VantageRGBLight", "__post_init__", NoKwargs, 0)
                   EXCEPT !.color_type = color_type]
    /\ calls' = <<>>
    /\ raised' = FALSE
    /\ UNCHANGED <<obj_level, read, gmem, requested, devVars, entryVars>>

----------------------------------------------------------------------------
(* number.py: the float arithmetic of VantageNumberVariable                *)
(*                                                                         *)
(* A Python float is an IEEE 754 double: zero, or a significand of         *)
(* Precision bits (most significant first, the first one set) times        *)
(* 2^exp, exp being the weight of the last bit.  The values here are       *)
(* non-negative and far from the exponent limits.                          *)

\* Bits of the significand of a double, sys.float_info.mant_dig
Precision == 53

FloatZero == [bits |-> <<>>, exp |-> 0]

\* The number of binary digits of a natural number below 2^30
BitLen(n) == Cardinality({k \in 0..30 : 2^k <= n})

\* The m low binary digits of a natural number, most significant first
FixedBits(n, m) == [i \in 1..m |-> (n \div 2^(m - i)) % 2]

\* The binary digits of a natural number, most significant first
IntBits(n) == FixedBits(n, BitLen(n))

RECURSIVE BitsToInt(_)
BitsToInt(bits) ==
    IF bits = <<>> THEN 0
    ELSE 2 * BitsToInt(SubSeq(bits, 1, Len(bits) - 1)) + bits[Len(bits)]

\* bits + 1, of the same length, for bits that are not all set
IncBits(bits) ==
    LET k == CHOOSE i \in 1..Len(bits) :
                 bits[i] = 0 /\ \A j \in (i + 1)..Len(bits) : bits[j] = 1
    IN  [i \in 1..Len(bits) |-> IF i < k THEN bits[i] ELSE IF i = k THEN 1 ELSE 0]

\* Round to nearest, ties to even: `bits` are the Precision leading bits,
\* `guard` the next bit, `sticky` whether a later bit is set.
RoundBits(bits, exp, guard, sticky) ==
    IF guard = 1 /\ (sticky \/ bits[Len(bits)] = 1)
    THEN IF \A i \in 1..Len(bits) : bits[i] = 1
         THEN [bits |-> <<1>> \o [i \in 1..(Len(bits) - 1) |-> 0], exp |-> exp + 1]
         ELSE [bits |-> IncBits(bits), exp |-> exp]
    ELSE [bits |-> bits, exp |-> exp]

\* Arithmetic on bit sequences goes ChunkLen bits at a time.
ChunkLen == 9

\* The fraction bits that long division finds: enough for Precision bits, the
\* guard bit and the leading zeros of any quotient of at least 2^-17
FracChunks == 8

\* Binary long division of r/d for r < d: the first n * ChunkLen bits after
\* the point, and the remainder left after them
RECURSIVE DivBits(_, _, _)
DivBits(r, d, n) ==
    IF n = 0 THEN [bits |-> <<>>, rem |-> r]
    ELSE LET rest == DivBits((r * 2^ChunkLen) % d, d, n - 1)
         IN  [bits |-> FixedBits((r * 2^ChunkLen) \div d, ChunkLen) \o rest.bits,
              rem  |-> rest.rem]

\* The float n / d for naturals n and d > 0, correctly rounded: Python's
\* int / int, and the float a decimal literal of n/d denotes
FloatDiv(n, d) ==
    IF n = 0 THEN FloatZero
    ELSE LET int   == IntBits(n \div d)
             frac  == DivBits(n % d, d, FracChunks)
             all   == int \o frac.bits
             first == MinOf({i \in 1..Len(all) : all[i] = 1})
             end   == first + Precision - 1
         IN  RoundBits(SubSeq(all, first, end), Len(int) - end, all[end + 1],
                       frac.rem # 0 \/ \E i \in (end + 2)..Len(all) : all[i] = 1)

\* bits * k + carry as a bit sequence, for a natural k
RECURSIVE MulBits(_, _, _)
MulBits(bits, k, carry) ==
    IF bits = <<>> THEN IntBits(carry)
    ELSE LET m == Min(ChunkLen, Len(bits))
             v == BitsToInt(SubSeq(bits, Len(bits) - m + 1, Len(bits))) * k + carry
         IN  MulBits(SubSeq(bits, 1, Len(bits) - m), k, v \div 2^m)
                 \o FixedBits(v % 2^m, m)

\* The float x * k for a natural k >= 1, correctly rounded
FloatMul(x, k) ==
    IF x.bits = <<>> THEN FloatZero
    ELSE LET p    == MulBits(x.bits, k, 0)
             drop == Len(p) - Precision
         IN  IF drop = 0 THEN [bits |-> p, exp |-> x.exp]
             ELSE RoundBits(SubSeq(p, 1, Precision), x.exp + drop, p[Precision + 1],
                            \E i \in (Precision + 2)..Len(p) : p[i] = 1)

\* int(x): the integer part of a non-negative float below 2^Precision
FloatToInt(x) ==
    IF x.bits = <<>> \/ Len(x.bits) + x.exp <= 0 THEN 0
    ELSE BitsToInt(SubSeq(x.bits, 1, Len(x.bits) + x.exp))

\* async_set_native_value, lines 94-97: the integer passed to set_value
set_native_value_arg(is_fixed, value) ==
    IF is_fixed THEN FloatToInt(FloatMul(value, 1000)) ELSE FloatToInt(value)

\* native_value for an int obj.value, lines 84-88
native_value(is_fixed, value) ==
    IF is_fixed THEN FloatDiv(value, 1000) ELSE FloatDiv(value, 1)

\* The id of the remote variable
GmemId == 30

\* async_set_native_value(value) runs to its end, value being the float
\* nearest requested/1000; the remote variable takes the value when the call
\* succeeds.
NumberSet(fail_at) ==
    /\ LET x == set_native_value_arg(gmem.is_fixed, FloatDiv(requested, 1000))
       IN  /\ calls' = async_request_call(<<Call("set_value", <<GmemId, x>>)>>, fail_at)
           /\ gmem' = IF fail_at = 1 THEN gmem ELSE [gmem EXCEPT !.value = x]
    /\ raised' = (fail_at = 1)
    /\ read' = NoRead
    /\ last' = [EntityOp("command", "VantageNumberVariable", "async_set_native_value",
                         NoKwargs, fail_at) EXCEPT !.value = requested]
    /\ UNCHANGED <<obj_level, rgb_attrs, requested, devVars, entryVars>>

\* The host reads native_value.
ReadNativeValue ==
    /\ read' = [kind |-> "native_value", value |-> native_value(gmem.is_fixed, gmem.value)]
    /\ last' = [EntityOp("read_native_value", "VantageNumberVariable", "native_value",
                         NoKwargs, 0)
                   EXCEPT !.value = IF last.method = "async_set_native_value"
                                       /\ last.fail_at # 1
                                    THEN last.value ELSE Absent]
    /\ calls' = <<>>
    /\ raised' = FALSE
    /\ UNCHANGED <<obj_level, rgb_attrs, gmem, requested, devVars, entryVars>>

----------------------------------------------------------------------------
(* Specifications of the entity adapters                                   *)

\* Keyword arguments the host may pass to a light command
KwargsSet ==
    [brightness        : {Absent, 128},
     transition        : {Absent, 2},
     rgb_color         : {<<>>, <<255, 128, 0>>},
     rgbw_color        : {<<>>, <<255, 128, 0, 64>>},
     hs_color          : {<<>>, <<30, 100>>},
     color_temp_kelvin : {Absent, 3000}]

\* The keyword arguments among them whose colour keys are all supplied or all
\* missing, for the commands that read no colour key
PlainKwargsSet ==
    {kw \in KwargsSet :
        (kw.rgb_color = <<>>) = (kw.rgbw_color = <<>>)
        /\ (kw.rgb_color = <<>>) = (kw.hs_color = <<>>)
        /\ (kw.rgb_color = <<>>) = (kw.color_temp_kelvin = Absent)}

\* Values, in thousandths, the host may pass to async_set_native_value
RequestedSet == {1500, 12345}

InitCommands ==
    /\ DevicesIdle
    /\ EntryIdle
    /\ obj_level = 0
    /\ read = NoRead
    /\ calls = <<>>
    /\ raised = FALSE
    /\ rgb_attrs = NoAttrs
    /\ gmem \in [is_fixed : BOOLEAN, value : {0}]
    /\ requested \in RequestedSet
    /\ last = EntityOp("init", "none", "none", NoKwargs, 0)

RGBLightTurnOn ==
    \E kw \in KwargsSet, fail_at \in 0..2 :
        Command("VantageRGBLight", "async_turn_on", kw, fail_at)

LightCommand ==
    \E entity \in LightClasses, method \in {"async_turn_on", "async_turn_off"},
       kw \in PlainKwargsSet, fail_at \in 0..1 :
        Command(entity, method, kw, fail_at)

SwitchCommand ==
    \E entity \in SwitchClasses, method \in {"async_turn_on", "async_turn_off"},
       fail_at \in 0..1 :
        Command(entity, method, NoKwargs, fail_at)

NumberCommand == \E fail_at \in 0..1 : NumberSet(fail_at)

NextCommands ==
    \/ RGBLightTurnOn
    \/ LightCommand
    \/ SwitchCommand
    \/ NumberCommand

SpecCommands == InitCommands /\ [][NextCommands]_vars

\* Levels the remote object may report
Levels == 0..LEVEL_RANGE[2]

InitLight ==
    /\ DevicesIdle
    /\ EntryIdle
    /\ obj_level \in Levels
    /\ read = NoRead
    /\ calls = <<>>
    /\ raised = FALSE
    /\ rgb_attrs = NoAttrs
    /\ gmem = [is_fixed |-> TRUE, value |-> 0]
    /\ requested = 0
    /\ last = EntityOp("init", "none", "none", NoKwargs, 0)

\* The host turns the light on with the brightness it has read.
TurnOnAsRead(entity) ==
    /\ read.kind = "brightness"
    /\ Command(entity, "async_turn_on", [NoKwargs EXCEPT !.brightness = read.value], 0)

\* The host turns the light on without a brightness.
TurnOnFull(entity) == Command(entity, "async_turn_on", NoKwargs, 0)

NextLight ==
    \/ \E level \in Levels : RemoteLevel(level)
    \/ ReadBrightness
    \/ \E entity \in {"VantageLight", "VantageLightGroup"} : TurnOnAsRead(entity)
    \/ \E entity \in {"VantageLight", "VantageLightGroup"} : TurnOnFull(entity)
    \/ \E color_type \in ColorTypes : InitRGBLight(color_type)

SpecLight == InitLight /\ [][NextLight]_vars

\* The largest whole number of thousandths the host passes, besides 12345
MaxThousandths == 1100

InitNumber ==
    /\ DevicesIdle
    /\ EntryIdle
    /\ obj_level = 0
    /\ read = NoRead
    /\ calls = <<>>
    /\ raised = FALSE
    /\ rgb_attrs = NoAttrs
    /\ gmem \in [is_fixed : BOOLEAN, value : {0}]
    /\ requested \in (0..MaxThousandths) \cup {12345}
    /\ last = EntityOp("init", "none", "none", NoKwargs, 0)

NextNumber ==
    \/ NumberSet(0)
    \/ ReadNativeValue

SpecNumber == InitNumber /\ [][NextNumber]_vars

----------------------------------------------------------------------------
(* Claims about the entity adapters                                        *)

\* C6 as stated: every entity command issues exactly one remote-library call.
C6_ExactlyOneCall ==
    last.op = "command" => Len(calls) = 1

ColorTempOnly(kw) ==
    /\ kw.rgbw_color = <<>>
    /\ kw.rgb_color = <<>>
    /\ kw.hs_color = <<>>
    /\ kw.color_temp_kelvin # Absent

\* C6 as amended: every entity command issues exactly one remote-library call,
\* except VantageRGBLight.async_turn_on with a colour temperature and no rgbw,
\* rgb or hs colour, which issues set_color_temp and, unless that call fails,
\* turn_on after it.
C6_OneCallUnlessColorTemp ==
    last.op = "command" =>
        IF /\ last.entity = "VantageRGBLight"
           /\ last.method = "async_turn_on"
           /\ ColorTempOnly(last.kw)
        THEN /\ calls[1].method = "set_color_temp"
             /\ IF last.fail_at = 1 THEN Len(calls) = 1
                ELSE Len(calls) = 2 /\ calls[2].method = "turn_on"
        ELSE Len(calls) = 1

\* The RGB light was turned on with a colour temperature: two calls.
C6_Witness ==
    /\ last.op = "command"
    /\ last.entity = "VantageRGBLight"
    /\ ColorTempOnly(last.kw)
    /\ Len(calls) = 2
    /\ calls[1].method = "set_color_temp"
    /\ calls[2].method = "turn_on"

\* C12: when VantageRGBLight.async_turn_on is called with an RGBW or RGB
\* colour, the colour sent to the remote object has each channel c as
\* round(c * b / 255) when a brightness b is supplied, and is the colour
\* unchanged when none is.
C12_ColorScaledByBrightness ==
    (/\ last.op = "command"
     /\ last.entity = "VantageRGBLight"
     /\ last.method = "async_turn_on"
     /\ (last.kw.rgbw_color # <<>> \/ last.kw.rgb_color # <<>>)) =>
        LET color == IF last.kw.rgbw_color # <<>> THEN last.kw.rgbw_color
                     ELSE last.kw.rgb_color
            b     == last.kw.brightness
        IN  SubSeq(calls[1].args, 1, Len(color)) =
                IF b = Absent THEN color
                ELSE [i \in 1..Len(color) |-> RoundHalfEven(color[i] * b, 255)]

\* C7: VantageRGBLight.__post_init__ does not raise; for HSL, RGB, RGBW and
\* CCT the supported colour modes are exactly HS, RGB, RGBW and COLOR_TEMP
\* and no warning is logged; for any other colour type they are exactly
\* BRIGHTNESS, the colour mode is BRIGHTNESS and one warning is logged.
C7_RGBLightInit ==
    last.op = "post_init" =>
        /\ ~rgb_attrs.raised
        /\ LET ct == last.color_type
               mode == CASE ct = "HSL"  -> "HS"
                         [] ct = "RGB"  -> "RGB"
                         [] ct = "RGBW" -> "RGBW"
                         [] ct = "CCT"  -> "COLOR_TEMP"
                         [] OTHER       -> "BRIGHTNESS"
           IN  /\ rgb_attrs.supported_color_modes = {mode}
               /\ rgb_attrs.color_mode = mode
               /\ rgb_attrs.warnings = IF mode = "BRIGHTNESS" THEN 1 ELSE 0

\* A light of an unsupported colour type was initialised.
C7_Witness ==
    /\ last.op = "post_init"
    /\ last.color_type = "HSIC"
    /\ rgb_attrs.warnings = 1
    /\ rgb_attrs.supported_color_modes = {"BRIGHTNESS"}

\* C8: the brightness a light reports for an integer level in 0..100 is an
\* integer in 1..255, and 255 for level 100; turning the light on with the
\* brightness read sends a level within 1 of the remote level, and level 100
\* for brightness 255.
C8_BrightnessRoundTrip ==
    /\ read.kind = "brightness" =>
           /\ read.value \in 1..255
           /\ obj_level = 100 => read.value = 255
    /\ ( /\ last.op = "command"
         /\ last.method = "async_turn_on"
         /\ read.kind = "brightness"
         /\ last.kw.brightness = read.value ) =>
           LET level == calls[1].args[2]
           IN  /\ level[1] - obj_level * level[2] <= level[2]
               /\ obj_level * level[2] - level[1] <= level[2]
               /\ read.value = 255 => level[1] = 100 * level[2]

\* Level 100 was read as 255 and sent back.
C8_Witness ==
    /\ obj_level = 100
    /\ read = [kind |-> "brightness", value |-> 255]
    /\ last.op = "command"
    /\ last.kw.brightness = 255
    /\ calls[1].args[2] = Rat(25500, 255)

\* C9: a fixed-point variable set to v, a whole number n of thousandths, is
\* sent the integer n, and n = 12345 for v = 12.345; native_value then
\* returns v; a variable that is not fixed-point, set to a whole v, is sent v
\* and returns it.
C9_FixedPointRoundTrip ==
    /\ ( /\ last.op = "command"
         /\ last.method = "async_set_native_value"
         /\ last.fail_at = 0 ) =>
           IF gmem.is_fixed THEN gmem.value = last.value
           ELSE last.value % 1000 = 0 => gmem.value = last.value \div 1000
    /\ ( /\ last.op = "read_native_value"
         /\ last.value # Absent
         /\ gmem.is_fixed \/ last.value % 1000 = 0 ) =>
           read.value = FloatDiv(last.value, 1000)

====
